---- MODULE Spec2Model ----
(***************************************************************************)
(* Model of GoWSL's command/process lifecycle (Cmd: Start, Wait, Run,      *)
(* Close, kill, waitProcess, status), of the interactive Shell call and of *)
(* the native Win32/WSL call surface they drive (Spec, SpecCtx); of        *)
(* Register/Unregister (SpecReg); of the decoding of the native            *)
(* environment block (SpecEnv, and SpecEnvFair under fair scheduling) and  *)
(* of strnlen/stringCtoGo (SpecStr); of the packing of a Configuration     *)
(* into the native flags (SpecCodec); and of the configuration setters     *)
(* called concurrently on one distro (SpecConf).                           *)
(***************************************************************************)
EXTENDS Integers, Sequences, FiniteSets, TLC

VARIABLES
    cmd,         \* the Cmd's book-keeping: [handle, exitStatus]
    open,        \* native handle table: the handles that are open
    closeCalls,  \* number of CloseHandle calls issued, per handle value
    proc,        \* native processes, per handle: [state, code]
    nextH,       \* number of handles the native layer has handed out
    registered,  \* whether the distro is in the registry
    calls,       \* native calls issued by the last operation (or by the run under a context), in order
    lastOp,      \* name of the last operation that returned
    lastErr,     \* error value the last operation returned
    lastStatus,  \* status the last operation returned (waitProcess)
    pre,         \* the Cmd as it was when the last operation was called
    killedAt,    \* per handle: CloseHandle calls issued on it before the first kill (-1: no kill)
    faults,      \* native calls on a good handle that were made to fail
    ops,         \* number of operations performed
    pcMain,      \* a command run under a context: where its caller is
    pcWatch,     \* ... where the task watching the context is
    ctxDone,     \* ... whether the deadline has passed or the context was cancelled
    chose,       \* ... which of completion and cancellation was acted on first
    result,      \* ... the error the run returned
    registry,    \* names of the distros in the registry
    preRegistry, \* the registry as it was when the last Register/Unregister was called
    regName,     \* name of the distro the last Register/Unregister was called on
    penv,        \* one call of processEnvVariables: its goroutines, channels and memory
    str,         \* one call of strnlen: the memory it scans and what it returned
    codec,       \* a Configuration and a flags word, as packFlags/unpackFlags leave them
    dconf        \* the distro's native configuration and the setter calls in progress on it

vars == <<cmd, open, closeCalls, proc, nextH, registered, calls,
          lastOp, lastErr, lastStatus, pre, killedAt, faults, ops,
          pcMain, pcWatch, ctxDone, chose, result,
          registry, preRegistry, regName, penv, str, codec, dconf>>

ctxVars == <<pcMain, pcWatch, ctxDone, chose, result>>

regVars == <<registry, preRegistry, regName>>

\* what the Cmd operations never touch
sideVars == <<regVars, penv, str, codec, dconf>>

\* what Register, Unregister, the decoder and the pure functions never touch
cmdVars == <<cmd, open, closeCalls, proc, nextH, pre, killedAt, faults, ops,
             lastStatus, ctxVars>>

----------------------------------------------------------------------------
(* Bounds *)

MaxHandles == 2
MaxOps == 4
MaxFaults == 1

(* Program constants *)

\* uint32 values are written as 32-bit two's complement integers, so
\* 0xFFFFFFFF (4294967295, "underflowed -1") is -1
WindowsError == -1
ActiveProcess == 259
WAIT_OBJECT_0 == 0
WAIT_ABANDONED == 128
WAIT_FAILED == -1

Handles == 1..MaxHandles
HandleValues == 0..MaxHandles
ExitCodes == {0, 7, WindowsError}
\* *uint32: << >> is the nil pointer, <<n>> points to n
NoStatus == << >>
Cached(n) == <<n>>

----------------------------------------------------------------------------
(* Go error values.  kind is the dynamic type; addr is the address of a    *)
(* pointer value (0 for non-pointers).                                     *)

Nil == [kind |-> "nil", code |-> 0, msg |-> "", addr |-> 0]

Errorf(m) == [kind |-> "*fmt.wrapError", code |-> 0, msg |-> m, addr |-> 0]

ErrorsNew(m) == [kind |-> "*errors.errorString", code |-> 0, msg |-> m, addr |-> 0]

Errno(m) == [kind |-> "syscall.Errno", code |-> 0, msg |-> m, addr |-> 0]

\* &ExitError{Code: n}: a pointer to a fresh allocation
ExitErrorPtr(n) == [kind |-> "*ExitError", code |-> n, msg |-> "exit error", addr |-> 1]

\* ExitError{}: the zero value, not a pointer
ExitErrorValue == [kind |-> "ExitError", code |-> 0, msg |-> "exit error", addr |-> 0]

IsPointer(e) == e.kind = "*ExitError"

\* errors.Is on values with neither an Is nor an Unwrap method: interface
\* equality, i.e. same dynamic type and same value (same address for pointers)
ErrorsIs(err, target) ==
    /\ err.kind = target.kind
    /\ IF IsPointer(err) THEN err.addr = target.addr
       ELSE err.code = target.code /\ err.msg = target.msg

----------------------------------------------------------------------------
(* The native layer, as functions on a world record                        *)
(*   w = [cmd, open, closeCalls, proc, nextH, faults, calls, ret, err, out, *)
(*        status, returned]                                                 *)
(* ret, err and out are the results of the last native call; calls logs    *)
(* each call with the handle it was given, its return value (0 = success)  *)
(* and its out-parameter.                                                  *)

Call(fn, h, ret, out) == [fn |-> fn, h |-> h, ret |-> ret, out |-> out]

\* a call that would succeed (good) and is made to fail
Fault(w, good, fail) == IF good /\ fail THEN w.faults + 1 ELSE w.faults

\* CloseHandle(h): fails on a handle that is not open
CloseHandle(w, h, fail) ==
    LET ok == h \in w.open /\ ~fail IN
    [w EXCEPT !.closeCalls[h] = @ + 1,
              !.faults = Fault(w, h \in w.open, fail),
              !.open = IF ok THEN @ \ {h} ELSE @,
              !.calls = Append(@, Call("CloseHandle", h, IF ok THEN 0 ELSE 1, 0)),
              !.ret = 0,
              !.err = IF ok THEN Nil ELSE Errno("CloseHandle")]

\* GetExitCodeProcess(h, &exit): STILL_ACTIVE (259) while the process runs
GetExitCodeProcess(w, h, fail) ==
    LET ok == h \in w.open /\ ~fail
        exit == IF ~ok THEN 0
                ELSE IF w.proc[h].state = "running" THEN ActiveProcess
                ELSE w.proc[h].code IN
    [w EXCEPT !.calls = Append(@, Call("GetExitCodeProcess", h, IF ok THEN 0 ELSE 1, exit)),
              !.faults = Fault(w, h \in w.open, fail),
              !.ret = exit,
              !.err = IF ok THEN Nil ELSE Errno("GetExitCodeProcess")]

\* TerminateProcess(h, code): fails on a bad handle or a finished process
TerminateProcess(w, h, code, fail) ==
    LET good == h \in w.open /\ w.proc[h].state = "running"
        ok == good /\ ~fail IN
    [w EXCEPT !.calls = Append(@, Call("TerminateProcess", h, IF ok THEN 0 ELSE 1, 0)),
              !.faults = Fault(w, good, fail),
              !.proc = IF ok THEN [@ EXCEPT ![h] = [state |-> "exited", code |-> code]]
                       ELSE @,
              !.ret = 0,
              !.err = IF ok THEN Nil ELSE Errno("TerminateProcess")]

\* WaitForSingleObject(h, INFINITE): returns once the process has finished
\* (it finishes with code n if it was still running), or fails
WaitForSingleObject(w, h, outcome, n) ==
    LET valid == h \in w.open
        sig == valid /\ outcome = "signalled"
        event == IF sig THEN WAIT_OBJECT_0
                 ELSE IF valid /\ outcome = "abandoned" THEN WAIT_ABANDONED
                 ELSE WAIT_FAILED IN
    [w EXCEPT !.calls = Append(@, Call("WaitForSingleObject", h, event, 0)),
              !.faults = Fault(w, valid, outcome # "signalled"),
              !.proc = IF sig /\ w.proc[h].state = "running"
                       THEN [@ EXCEPT ![h] = [state |-> "exited", code |-> n]]
                       ELSE @,
              !.ret = event,
              !.err = IF sig \/ (valid /\ outcome = "abandoned") THEN Nil
                      ELSE Errno("WaitForSingleObject")]

\* WslLaunch(..., &handle): r1 # 0 on failure; on r1 = 0 the out-parameter
\* holds a new process handle, or stays null
WslLaunchCall(w, launch) ==
    LET h == w.nextH + 1 IN
    IF launch = "ok"
    THEN [w EXCEPT !.calls = Append(@, Call("WslLaunch", 0, 0, h)),
                   !.nextH = h,
                   !.open = @ \cup {h},
                   !.proc = [@ EXCEPT ![h] = [state |-> "running", code |-> 0]],
                   !.ret = 0, !.err = Nil, !.out = h]
    ELSE [w EXCEPT !.calls = Append(@, Call("WslLaunch", 0,
                                                 IF launch = "null" THEN 0 ELSE 1, 0)),
                   !.ret = IF launch = "null" THEN 0 ELSE 1,
                   !.err = Nil, !.out = 0]

World == [cmd |-> cmd, open |-> open, closeCalls |-> closeCalls, proc |-> proc,
          nextH |-> nextH, faults |-> faults, calls |-> << >>, ret |-> 0, err |-> Nil, out |-> 0,
          status |-> 0, returned |-> FALSE, registry |-> registry]

\* the operation returns error e (and status s) in world w
Return(w, e) == [w EXCEPT !.err = e]

ReturnStatus(w, s, e) == [w EXCEPT !.err = e, !.status = s]

----------------------------------------------------------------------------
(* Cmd *)

\* (*Cmd).Close: CloseHandle on the handle, whatever it is; handle = 0 after
Close(w, closeFail) ==
    LET c == CloseHandle(w, w.cmd.handle, closeFail) IN
    [c EXCEPT !.cmd.handle = 0]

\* queryStatus reporting a non-zero exit as a generic failure
queryStatus_Generic(w, queryFail) ==
    LET q == GetExitCodeProcess(w, w.cmd.handle, queryFail) IN
    IF q.err # Nil THEN Return(q, q.err)
    ELSE IF q.ret # 0 THEN Return(q, Errorf("exit error"))
    ELSE Return(q, Nil)

\* (*Cmd).queryStatus
queryStatus(w, queryFail) ==
    LET q == GetExitCodeProcess(w, w.cmd.handle, queryFail) IN
    IF q.err # Nil THEN Return(q, q.err)
    ELSE IF q.ret # 0 THEN Return(q, ExitErrorPtr(q.ret))
    ELSE Return(q, Nil)

\* (Cmd).Wait has a value receiver: the deferred Close runs on the copy, so
\* the caller's Cmd keeps its handle
Wait(w, in) ==
    LET r == WaitForSingleObject(w, w.cmd.handle, in.wait, in.n)
        body == IF r.ret # 0
                THEN Return(r, Errorf("failed syscall to WaitForSingleObject"))
                ELSE queryStatus(r, in.queryFail)
        closed == Close(body, in.closeFail) IN
    [closed EXCEPT !.cmd = w.cmd, !.err = body.err]

\* (*Cmd).Start
Start(w, in) ==
    IF ~in.utf16 THEN Return(w, Errorf("failed to convert to UTF16"))
    ELSE LET l == WslLaunchCall(w, in.launch) IN
         IF l.ret # 0
         THEN Return(l, Errorf("failed syscall to WslLaunch"))
         ELSE Return([l EXCEPT !.cmd.handle = l.out], Nil)

\* Run going on to Wait whatever Start returned
Run_AlwaysWait(w, in) ==
    Wait(Start(w, in), in)

\* (*Cmd).Run
Run(w, in) ==
    LET s == Start(w, in) IN
    IF s.err # Nil THEN s ELSE Wait(s, in)

\* wslLaunch: the native launch, refusing a null handle
wslLaunch(w, in) ==
    IF ~in.utf16 THEN Return(w, Errorf("failed to convert to UTF16"))
    ELSE LET l == WslLaunchCall(w, in.launch) IN
         IF l.ret # 0 THEN Return(l, Errorf("failed syscall to WslLaunch"))
         ELSE IF l.out = 0 THEN Return(l, Errorf("syscall to WslLaunch returned a null handle"))
         ELSE Return(l, Nil)

----------------------------------------------------------------------------
(* Cmd, the part that keeps a cached exit status *)

\* (*Cmd).status
status(w, queryFail) ==
    IF w.cmd.exitStatus # NoStatus
    THEN ReturnStatus(w, w.cmd.exitStatus[1], Nil)
    ELSE LET q == GetExitCodeProcess(w, w.cmd.handle, queryFail) IN
         IF q.err # Nil
         THEN ReturnStatus(q, WindowsError, Errorf("failed to retrieve exit status"))
         ELSE ReturnStatus(q, q.ret, Nil)

\* (*Cmd).kill, up to the caching of the status
killStatus(w, in) ==
    LET s == status(w, in.queryFail) IN
    [s EXCEPT !.cmd.exitStatus = IF s.err = Nil THEN Cached(s.status) ELSE NoStatus]

\* (*Cmd).kill, the forced termination it returns the result of
killTerminate(w, in) ==
    LET t == TerminateProcess(w, w.cmd.handle, ActiveProcess, in.termFail) IN
    ReturnStatus(t, 0, t.err)

\* kill releasing the handle after the termination
kill_Releasing(w, in) ==
    LET k == killTerminate(killStatus(w, in), in) IN
    Return(Close(k, in.closeFail), k.err)

\* (*Cmd).kill
kill(w, in) ==
    killTerminate(killStatus(w, in), in)

\* (*Cmd).waitProcess, the native wait: returns early unless it signalled
wpWait(w, in) ==
    LET r == WaitForSingleObject(w, w.cmd.handle, in.wait, in.n) IN
    IF r.err # Nil
    THEN [ReturnStatus(r, WindowsError, Errorf("failed syscall to WaitForSingleObject"))
             EXCEPT !.returned = TRUE]
    ELSE IF r.ret # WAIT_OBJECT_0
    THEN [ReturnStatus(r, WindowsError,
                       Errorf("failed syscall to WaitForSingleObject, non-zero exit status"))
             EXCEPT !.returned = TRUE]
    ELSE r

\* (*Cmd).waitProcess, the status query: w.status and w.err hold status, statusError
wpStatus(w, in) ==
    status(w, in.queryFail)

\* (*Cmd).waitProcess, the release of the handle and the return
wpClose(w, in) ==
    LET ok == w.err = Nil /\ w.status = 0
        c == CloseHandle(w, w.cmd.handle, in.closeFail) IN
    IF ~ok /\ c.err # Nil
    THEN [ReturnStatus(c, WindowsError, c.err) EXCEPT !.returned = TRUE]
    ELSE [ReturnStatus(c, w.status, w.err) EXCEPT !.returned = TRUE]

\* (*Cmd).waitProcess
waitProcess(w, in) ==
    LET r == wpWait(w, in) IN
    IF r.returned THEN r ELSE wpClose(wpStatus(r, in), in)

----------------------------------------------------------------------------
(* Shell *)

\* wslIsDistributionRegistered / Distro.IsRegistered: looks the name up in
\* the list RegisteredDistros() reads from the registry; out = 1 when found
IsRegistered(w, reg, regErr) ==
    IF regErr
    THEN [w EXCEPT !.calls = Append(@, Call("RegisteredDistros", 0, 1, 0)),
                   !.ret = 1, !.out = 0,
                   !.err = Errorf("failed to detect if distro is registered")]
    ELSE [w EXCEPT !.calls = Append(@, Call("RegisteredDistros", 0, 0, IF reg THEN 1 ELSE 0)),
                   !.ret = 0, !.out = IF reg THEN 1 ELSE 0, !.err = Nil]

\* wslLaunchInteractive: one blocking native call that launches and waits
wslLaunchInteractive(w, in) ==
    IF ~in.utf16 THEN Return(w, Errorf("failed to convert command to UTF16"))
    ELSE LET c == [w EXCEPT !.calls = Append(@, Call("WslLaunchInteractive", 0, in.r1, in.n)),
                            !.ret = in.r1, !.out = in.n] IN
         IF c.ret # 0 THEN Return(c, Errorf("failed syscall to WslLaunchInteractive"))
         ELSE IF c.out = WindowsError
         THEN Return(c, Errorf("error on windows' side on WslLaunchInteractive"))
         ELSE Return(c, Nil)

\* Shell launching without looking at the registration
ShellBody_NoCheck(w, reg, in) ==
    LET r == IsRegistered(w, reg, in.regErr)
        l == wslLaunchInteractive(r, in) IN
    IF l.err # Nil THEN l
    ELSE IF l.out # 0 THEN Return(l, ExitErrorPtr(l.out))
    ELSE Return(l, Nil)

\* the body of Distro.Shell, before its deferred function runs
ShellBody(w, reg, in) ==
    LET r == IsRegistered(w, reg, in.regErr) IN
    IF r.err # Nil THEN r
    ELSE IF r.out = 0 THEN Return(r, ErrorsNew("distro is not registered"))
    ELSE LET l == wslLaunchInteractive(r, in) IN
         IF l.err # Nil THEN l
         ELSE IF l.out # 0 THEN Return(l, ExitErrorPtr(l.out))
         ELSE Return(l, Nil)

\* the deferred function of Distro.Shell
ShellDefer(err) ==
    IF err = Nil THEN err
    ELSE IF ErrorsIs(err, ExitErrorValue) THEN err
    ELSE Errorf(<<"error in Shell with distro", err.msg>>)

\* Distro.Shell
Shell(w, reg, in) ==
    LET b == ShellBody(w, reg, in) IN
    Return(b, ShellDefer(b.err))

----------------------------------------------------------------------------
(* Registration *)

\* distro names; ShellDistro is the one Shell is called on
Distros == {"Ubuntu", "Debian", "Alpine"}
ShellDistro == "Ubuntu"

PathOutcomes == {"ok", "noabs", "missing"}

\* fixPath: filepath.Abs, then os.Stat reporting that the file does not exist
fixPath(w, in) ==
    IF in.path = "noabs" THEN Return(w, Errno("Abs"))
    ELSE IF in.path = "missing" THEN Return(w, Errorf("file does not exist"))
    ELSE Return(w, Nil)

\* wslRegisterDistribution: the native call adds the name to the registry; it
\* fails on a name that is already there
wslRegisterDistribution(w, name, in) ==
    IF ~in.utf16 THEN Return(w, ErrorsNew("failed to convert distro name to UTF16"))
    ELSE IF ~in.pathUtf16 THEN Return(w, Errorf("failed to convert rootfs to UTF16"))
    ELSE LET r1 == IF name \in w.registry THEN 1 ELSE in.r1
             c == [w EXCEPT !.calls = Append(@, Call("WslRegisterDistribution", 0, r1, 0)),
                            !.ret = r1,
                            !.registry = IF r1 = 0 THEN @ \cup {name} ELSE @] IN
         IF c.ret # 0 THEN Return(c, Errorf("failed syscall to wslRegisterDistribution"))
         ELSE Return(c, Nil)

\* wslUnregisterDistribution: the native call removes the name from the
\* registry; it fails on a name that is not there
wslUnregisterDistribution(w, name, in) ==
    IF ~in.utf16 THEN Return(w, ErrorsNew("failed to convert distro name to UTF16"))
    ELSE LET r1 == IF name \notin w.registry THEN 1 ELSE in.r1
             c == [w EXCEPT !.calls = Append(@, Call("WslUnregisterDistribution", 0, r1, 0)),
                            !.ret = r1,
                            !.registry = IF r1 = 0 THEN @ \ {name} ELSE @] IN
         IF c.ret # 0 THEN Return(c, Errorf("failed syscall to WslLaunchInteractive"))
         ELSE Return(c, Nil)

\* Register going to the native call without looking at the registration
RegisterBody_NoCheck(w, name, in) ==
    LET f == fixPath(w, in) IN
    IF f.err # Nil THEN f
    ELSE LET r == IsRegistered(f, name \in f.registry, in.regErr) IN
         IF r.err # Nil THEN Return(r, ErrorsNew("failed to detect if it is already installed"))
         ELSE wslRegisterDistribution(r, name, in)

\* the body of (*Distro).Register, before its deferred function runs
RegisterBody(w, name, in) ==
    LET f == fixPath(w, in) IN
    IF f.err # Nil THEN f
    ELSE LET r == IsRegistered(f, name \in f.registry, in.regErr) IN
         IF r.err # Nil THEN Return(r, ErrorsNew("failed to detect if it is already installed"))
         ELSE IF r.out = 1 THEN Return(r, ErrorsNew("already registered"))
         ELSE wslRegisterDistribution(r, name, in)

\* the deferred function of Register and of Unregister: wraps any error
RegisterDefer(prefix, err) ==
    IF err = Nil THEN err ELSE Errorf(<<prefix, err.msg>>)

\* (*Distro).Register
Register(w, name, in) ==
    LET b == RegisterBody(w, name, in) IN
    Return(b, RegisterDefer("error registering", b.err))

\* (*Distro).Unregister
Unregister(w, name, in) ==
    LET r == IsRegistered(w, name \in w.registry, in.regErr)
        b == IF r.err # Nil THEN r
             ELSE IF r.out = 0 THEN Return(r, ErrorsNew("not registered"))
             ELSE wslUnregisterDistribution(r, name, in) IN
    Return(b, RegisterDefer("failed to unregister", b.err))

----------------------------------------------------------------------------
(* The operations as actions *)

DefaultIn == [utf16 |-> TRUE, launch |-> "ok", wait |-> "signalled", n |-> 0,
              queryFail |-> FALSE, closeFail |-> FALSE, termFail |-> FALSE,
              regErr |-> FALSE, r1 |-> 0, path |-> "ok", pathUtf16 |-> TRUE]

LaunchOutcomes == {"ok", "null", "fail"}
WaitOutcomes == {"signalled", "abandoned", "failed"}

\* the state after operation op has returned in world w
Commit(op, w) ==
    /\ ops < MaxOps
    /\ ops' = ops + 1
    /\ w.faults <= MaxFaults
    /\ faults' = w.faults
    /\ cmd' = w.cmd
    /\ open' = w.open
    /\ closeCalls' = w.closeCalls
    /\ proc' = w.proc
    /\ nextH' = w.nextH
    /\ calls' = w.calls
    /\ lastOp' = op
    /\ lastErr' = w.err
    /\ lastStatus' = w.status
    /\ pre' = cmd
    /\ UNCHANGED <<registered, sideVars, ctxVars>>

\* a Cmd as Distro.Command builds it, and nothing run under a context yet
CmdInit ==
    /\ cmd = [handle |-> 0, exitStatus |-> NoStatus]
    /\ open = {}
    /\ closeCalls = [h \in HandleValues |-> 0]
    /\ proc = [h \in Handles |-> [state |-> "none", code |-> 0]]
    /\ nextH = 0
    /\ calls = << >>
    /\ lastOp = "none"
    /\ lastErr = Nil
    /\ lastStatus = 0
    /\ pre = cmd
    /\ killedAt = [h \in HandleValues |-> -1]
    /\ faults = 0
    /\ ops = 0
    /\ pcMain = "start"
    /\ pcWatch = "idle"
    /\ ctxDone = FALSE
    /\ chose = "none"
    /\ result = Nil

\* no decoding, no string scan and no flag conversion in progress
SideIdle ==
    /\ penv = [pc |-> "none"]
    /\ str = [pc |-> "none"]
    /\ codec = [pc |-> "none"]
    /\ dconf = [pc |-> "none"]

Init ==
    /\ CmdInit
    /\ registered \in BOOLEAN
    /\ registry = IF registered THEN {ShellDistro} ELSE {}
    /\ preRegistry = registry
    /\ regName = ShellDistro
    /\ SideIdle

\* The inputs of an operation are drawn from what can make a difference: a
\* native call can be made to fail only where it would succeed, and an exit
\* code is chosen only where a process finishes or reports one.
Flag(cond) == IF cond THEN BOOLEAN ELSE {FALSE}
WaitSet(cond) == IF cond THEN WaitOutcomes ELSE {"signalled"}
CodeSet(cond) == IF cond THEN ExitCodes ELSE {0}
LaunchSet(cond) ==
    IF ~cond THEN {"ok"}
    ELSE IF nextH < MaxHandles THEN LaunchOutcomes
    ELSE LaunchOutcomes \ {"ok"}

Good == cmd.handle \in open
Running == Good /\ proc[cmd.handle].state = "running"

DoStart ==
    \E u \in BOOLEAN : \E l \in LaunchSet(u) :
        LET in == [DefaultIn EXCEPT !.utf16 = u, !.launch = l] IN
        /\ Commit("Start", Start(World, in))
        /\ UNCHANGED killedAt

DoWait ==
    \E o \in WaitSet(Good) :
    \E n \in CodeSet(Running /\ o = "signalled"),
       q \in Flag(Good /\ o = "signalled"), c \in Flag(Good) :
        LET in == [DefaultIn EXCEPT !.wait = o, !.n = n, !.queryFail = q, !.closeFail = c] IN
        /\ Commit("Wait", Wait(World, in))
        /\ UNCHANGED killedAt

DoRun ==
    \E u \in BOOLEAN : \E l \in LaunchSet(u) : \E o \in WaitSet(u /\ l = "ok") :
    \E n \in CodeSet(u /\ l = "ok" /\ o = "signalled"),
       q \in Flag(u /\ l = "ok" /\ o = "signalled"), c \in Flag(u /\ l = "ok") :
        LET in == [DefaultIn EXCEPT !.utf16 = u, !.launch = l, !.wait = o, !.n = n,
                                    !.queryFail = q, !.closeFail = c] IN
        /\ Commit("Run", Run(World, in))
        /\ UNCHANGED killedAt

DoClose ==
    \E c \in Flag(Good) :
        /\ Commit("Close", Close(World, c))
        /\ UNCHANGED killedAt

DoKill ==
    \E q \in Flag(Good /\ cmd.exitStatus = NoStatus), t \in Flag(Running) :
        LET in == [DefaultIn EXCEPT !.queryFail = q, !.termFail = t] IN
        /\ Commit("Kill", kill(World, in))
        /\ killedAt' = IF killedAt[cmd.handle] = -1
                       THEN [killedAt EXCEPT ![cmd.handle] = closeCalls[cmd.handle]]
                       ELSE killedAt

DoWaitProcess ==
    \E o \in WaitSet(Good) :
    \E n \in CodeSet(Running /\ o = "signalled"),
       q \in Flag(Good /\ o = "signalled" /\ cmd.exitStatus = NoStatus),
       c \in Flag(Good /\ o = "signalled") :
        LET in == [DefaultIn EXCEPT !.wait = o, !.n = n, !.queryFail = q, !.closeFail = c] IN
        /\ Commit("waitProcess", waitProcess(World, in))
        /\ UNCHANGED killedAt

DoStatus ==
    \E q \in Flag(Good /\ cmd.exitStatus = NoStatus) :
        /\ Commit("status", status(World, q))
        /\ UNCHANGED killedAt

DoShell ==
    \E e \in BOOLEAN : \E u \in Flag(~e /\ registered) :
    \E r \in (IF ~e /\ registered /\ ~u THEN {0, 1} ELSE {0}) :
    \E n \in CodeSet(~e /\ registered /\ ~u /\ r = 0) :
        LET in == [DefaultIn EXCEPT !.utf16 = ~u, !.regErr = e, !.r1 = r, !.n = n] IN
        /\ Commit("Shell", Shell(World, registered, in))
        /\ UNCHANGED killedAt

\* a running process finishes on its own with exit code n
ProcExit ==
    \E h \in Handles, n \in ExitCodes :
        /\ proc[h].state = "running"
        /\ proc' = [proc EXCEPT ![h] = [state |-> "exited", code |-> n]]
        /\ UNCHANGED <<cmd, open, closeCalls, nextH, registered, sideVars, calls,
                       lastOp, lastErr, lastStatus, pre, killedAt, faults, ops, ctxVars>>

Next ==
    \/ DoStart
    \/ DoWait
    \/ DoRun
    \/ DoClose
    \/ DoKill
    \/ DoWaitProcess
    \/ DoStatus
    \/ DoShell
    \/ ProcExit

Spec == Init /\ [][Next]_vars

----------------------------------------------------------------------------
(* Register and Unregister, called one at a time on any of the distro names *)

\* the state after Register/Unregister has returned in world w
RegCommit(op, name, w) ==
    /\ registry' = w.registry
    /\ registered' = (ShellDistro \in w.registry)
    /\ preRegistry' = registry
    /\ regName' = name
    /\ calls' = w.calls
    /\ lastOp' = op
    /\ lastErr' = w.err
    /\ UNCHANGED <<cmdVars, penv, str, codec, dconf>>

RegInit ==
    /\ CmdInit
    /\ registry \in SUBSET Distros
    /\ registered = (ShellDistro \in registry)
    /\ preRegistry = registry
    /\ regName = ShellDistro
    /\ SideIdle

DoRegister ==
    \E name \in Distros, p \in PathOutcomes :
    \E e \in Flag(p = "ok") :
    \E u \in Flag(p = "ok" /\ ~e /\ name \notin registry) :
    \E pu \in Flag(p = "ok" /\ ~e /\ name \notin registry /\ ~u) :
    \E r \in (IF p = "ok" /\ ~e /\ name \notin registry /\ ~u /\ ~pu THEN {0, 1} ELSE {0}) :
        LET in == [DefaultIn EXCEPT !.path = p, !.regErr = e, !.utf16 = ~u,
                                    !.pathUtf16 = ~pu, !.r1 = r] IN
        RegCommit("Register", name, Register(World, name, in))

DoUnregister ==
    \E name \in Distros, e \in BOOLEAN :
    \E u \in Flag(~e /\ name \in registry) :
    \E r \in (IF ~e /\ name \in registry /\ ~u THEN {0, 1} ELSE {0}) :
        LET in == [DefaultIn EXCEPT !.regErr = e, !.utf16 = ~u, !.r1 = r] IN
        RegCommit("Unregister", name, Unregister(World, name, in))

RegNext ==
    \/ DoRegister
    \/ DoUnregister

SpecReg == RegInit /\ [][RegNext]_vars

----------------------------------------------------------------------------
(* A command run under a deadline or cancellation signal                   *)
(* (Distro.CommandContext(ctx, ...).Run()).  The caller launches the       *)
(* command and waits for it with waitProcess; a second task watches the    *)
(* context and issues kill when it is done; a wait that returns first      *)
(* disarms the watcher.  waitProcess and kill run step by step, so that    *)
(* they interleave.                                                        *)

\* the error of a context that is done
CtxErr == [kind |-> "context.deadlineExceededError", code |-> 0,
           msg |-> "context deadline exceeded", addr |-> 0]

\* what Wait makes of waitProcess's (status, err)
WaitResult(st, err) ==
    IF err # Nil THEN err
    ELSE IF st # 0 THEN ExitErrorPtr(st)
    ELSE Nil

\* the caller's world between the steps of waitProcess: status and
\* statusError are the locals it holds
Stage == [World EXCEPT !.calls = calls, !.status = lastStatus, !.err = lastErr]

\* the watcher's world
Watch == [World EXCEPT !.calls = calls]

\* the effect of a step on the Cmd and on the native layer
CommitNative(w) ==
    /\ w.faults <= MaxFaults
    /\ cmd' = w.cmd
    /\ open' = w.open
    /\ closeCalls' = w.closeCalls
    /\ proc' = w.proc
    /\ nextH' = w.nextH
    /\ calls' = w.calls
    /\ faults' = w.faults
    /\ UNCHANGED <<registered, sideVars, lastOp, pre, killedAt, ops>>

\* Start: launch; on success the watcher is armed
CtxStart ==
    /\ pcMain = "start"
    /\ \E u \in BOOLEAN : \E l \in LaunchSet(u) :
        LET in == [DefaultIn EXCEPT !.utf16 = u, !.launch = l]
            w == wslLaunch(World, in) IN
        /\ CommitNative([w EXCEPT !.cmd.handle = w.out])
        /\ IF w.err # Nil
           THEN pcMain' = "done" /\ result' = w.err /\ pcWatch' = pcWatch
           ELSE pcMain' = "wait" /\ result' = result /\ pcWatch' = "armed"
        /\ UNCHANGED <<lastErr, lastStatus, ctxDone, chose>>

\* Wait, the native wait of waitProcess: returns once the process is over
CtxWait ==
    /\ pcMain = "wait"
    /\ \E o \in WaitSet(Good) :
        LET in == [DefaultIn EXCEPT !.wait = o]
            w == wpWait(Stage, in) IN
        /\ (Good /\ o = "signalled") => ~Running
        /\ CommitNative(w)
        /\ lastStatus' = w.status
        /\ lastErr' = w.err
        /\ pcMain' = IF w.returned THEN "returned" ELSE "status"
        /\ UNCHANGED <<pcWatch, ctxDone, chose, result>>

\* Wait, the status query of waitProcess
CtxStatus ==
    /\ pcMain = "status"
    /\ \E q \in Flag(Good /\ cmd.exitStatus = NoStatus) :
        LET in == [DefaultIn EXCEPT !.queryFail = q]
            w == wpStatus(Stage, in) IN
        /\ CommitNative(w)
        /\ lastStatus' = w.status
        /\ lastErr' = w.err
        /\ pcMain' = "close"
        /\ UNCHANGED <<pcWatch, ctxDone, chose, result>>

\* Wait, the release of the handle in waitProcess
CtxClose ==
    /\ pcMain = "close"
    /\ \E c \in Flag(Good) :
        LET in == [DefaultIn EXCEPT !.closeFail = c]
            w == wpClose(Stage, in) IN
        /\ CommitNative(w)
        /\ lastStatus' = w.status
        /\ lastErr' = w.err
        /\ pcMain' = "returned"
        /\ UNCHANGED <<pcWatch, ctxDone, chose, result>>

\* Wait has returned and the watcher has not acted: it is disarmed and the
\* run returns what Wait returned
CtxReturnNatural ==
    /\ pcMain = "returned"
    /\ pcWatch = "armed"
    /\ pcWatch' = "disarmed"
    /\ chose' = "natural"
    /\ result' = WaitResult(lastStatus, lastErr)
    /\ pcMain' = "done"
    /\ UNCHANGED <<cmd, open, closeCalls, proc, nextH, registered, sideVars, calls,
                   lastOp, lastErr, lastStatus, pre, killedAt, faults, ops, ctxDone>>

\* Wait has returned after the watcher killed the process: the run returns
\* the context's error
CtxReturnCancelled ==
    /\ pcMain = "returned"
    /\ pcWatch = "exit"
    /\ result' = CtxErr
    /\ pcMain' = "done"
    /\ UNCHANGED <<cmd, open, closeCalls, proc, nextH, registered, sideVars, calls,
                   lastOp, lastErr, lastStatus, pre, killedAt, faults, ops,
                   pcWatch, ctxDone, chose>>

\* the deadline passes, or the context is cancelled
CtxFire ==
    /\ ~ctxDone
    /\ ctxDone' = TRUE
    /\ UNCHANGED <<cmd, open, closeCalls, proc, nextH, registered, sideVars, calls,
                   lastOp, lastErr, lastStatus, pre, killedAt, faults, ops,
                   pcMain, pcWatch, chose, result>>

\* the watcher sees the context done
WatchSignal ==
    /\ pcWatch = "armed"
    /\ ctxDone
    /\ pcWatch' = "killStatus"
    /\ chose' = "signal"
    /\ UNCHANGED <<cmd, open, closeCalls, proc, nextH, registered, sideVars, calls,
                   lastOp, lastErr, lastStatus, pre, killedAt, faults, ops,
                   pcMain, ctxDone, result>>

\* the watcher's kill, up to the caching of the status
WatchKillStatus ==
    /\ pcWatch = "killStatus"
    /\ \E q \in Flag(Good /\ cmd.exitStatus = NoStatus) :
        LET in == [DefaultIn EXCEPT !.queryFail = q] IN
        CommitNative(killStatus(Watch, in))
    /\ pcWatch' = "killTerminate"
    /\ UNCHANGED <<lastErr, lastStatus, pcMain, ctxDone, chose, result>>

\* the watcher's kill, the forced termination
WatchKillTerminate ==
    /\ pcWatch = "killTerminate"
    /\ \E t \in Flag(Running) :
        LET in == [DefaultIn EXCEPT !.termFail = t] IN
        CommitNative(killTerminate(Watch, in))
    /\ pcWatch' = "exit"
    /\ UNCHANGED <<lastErr, lastStatus, pcMain, ctxDone, chose, result>>

CtxNext ==
    \/ CtxStart
    \/ CtxWait
    \/ CtxStatus
    \/ CtxClose
    \/ CtxReturnNatural
    \/ CtxReturnCancelled
    \/ CtxFire
    \/ WatchSignal
    \/ WatchKillStatus
    \/ WatchKillTerminate
    \/ ProcExit

SpecCtx == Init /\ [][CtxNext]_vars

----------------------------------------------------------------------------
(* Native strings.  Memory is a sequence of bytes, the byte at offset k    *)
(* being mem[k + 1]; a Go string is the sequence of its bytes.             *)

MaxBound == 2
MaxCount == 2

NUL == "NUL"
Bytes == {NUL, "a", "="}

\* the bound processEnvVariables passes to stringCtoGo
DecodeBound == 32768

\* the loop of strnlen, entered with the pointer at offset length: the
\* condition reads the byte under the pointer, then compares length to maxlen
RECURSIVE strnlenLoop(_, _, _)
strnlenLoop(mem, maxlen, length) ==
    IF mem[length + 1] # NUL /\ length <= maxlen
    THEN strnlenLoop(mem, maxlen, length + 1)
    ELSE length

\* strnlen
strnlen(mem, maxlen) == strnlenLoop(mem, maxlen, 0)

\* the offsets strnlen reads: one per evaluation of the loop condition, the
\* last one by the evaluation that ends the loop
strnlenReads(mem, maxlen) == 0..strnlen(mem, maxlen)

\* stringCtoGo: a copy of the first strnlen bytes
stringCtoGo(mem, maxlen) == SubSeq(mem, 1, strnlen(mem, maxlen))

\* strings.Index(s, c) for a one-byte c: offset of the first c in s, or -1
Index(s, c) ==
    IF \E j \in 1..Len(s) : s[j] = c
    THEN (CHOOSE j \in 1..Len(s) : s[j] = c /\ \A i \in 1..(j - 1) : s[i] # c) - 1
    ELSE -1

\* a native string: the bytes of s and a terminator
CString(s) == Append(s, NUL)

----------------------------------------------------------------------------
(* processEnvVariables: one goroutine per string decodes it and sends it   *)
(* to the caller over unbuffered channels; one more goroutine waits for    *)
(* them and closes the channels; the caller collects what it receives in a *)
(* map.  Two implementations: one channel of key/value pairs, with the     *)
(* native memory released (part_000), and one channel for keys and one for *)
(* values (distro.go).                                                      *)
(*   penv = [pc, impl, block, main, i, wpc, kv, wg, closer, closed,        *)
(*           closes, m, k, okk, freed, arrFreed, copied, panicked]         *)

Impls == {"one-channel", "two-channel"}

Channels == {"env", "keys", "values"}

\* the strings of the native block
Pool == {<<"a", "=", "x">>, <<"b", "=", "y">>, <<"a", "=", "y">>,
         <<"b", "=", "=">>, <<"a", "b">>}

Blocks == UNION {[1..n -> {CString(s) : s \in Pool}] : n \in 0..MaxCount}

\* map[string]string{} and m[k] = v
EmptyMap == [x \in {} |-> << >>]

Put(m, k, v) == [x \in DOMAIN m \cup {k} |-> IF x = k THEN v ELSE m[x]]

\* goStr[:idx] and goStr[idx+1:] with the value keeping the separator
splitEntry_KeepSeparator(goStr, idx) ==
    [key |-> SubSeq(goStr, 1, idx), value |-> SubSeq(goStr, idx + 1, Len(goStr))]

\* goStr[:idx] and goStr[idx+1:]
splitEntry(goStr, idx) ==
    [key |-> SubSeq(goStr, 1, idx), value |-> SubSeq(goStr, idx + 2, Len(goStr))]

\* processEnvVariables is called on a block
NewDecoding(impl, block) ==
    [pc |-> "run", impl |-> impl, block |-> block, main |-> "spawn", i |-> 1,
     wpc |-> [j \in 1..Len(block) |-> "unborn"],
     kv |-> [j \in 1..Len(block) |-> [key |-> << >>, value |-> << >>]],
     wg |-> 0, closer |-> "unborn", closed |-> {},
     closes |-> [c \in Channels |-> 0], m |-> EmptyMap,
     k |-> << >>, okk |-> FALSE,
     freed |-> [j \in 1..Len(block) |-> 0], arrFreed |-> 0,
     copied |-> [j \in 1..Len(block) |-> FALSE], panicked |-> FALSE]

\* the registry holds the distro and no Register/Unregister is called
RegIdle ==
    /\ registered = TRUE
    /\ registry = {ShellDistro}
    /\ preRegistry = registry
    /\ regName = ShellDistro

EnvInit ==
    /\ CmdInit
    /\ RegIdle
    /\ penv \in {NewDecoding(impl, block) : impl \in Impls, block \in Blocks}
    /\ str = [pc |-> "none"]
    /\ codec = [pc |-> "none"]
    /\ dconf = [pc |-> "none"]

\* a step of the call leads to p
EnvStep(p) ==
    /\ penv.pc = "run"
    /\ ~penv.panicked
    /\ penv' = p
    /\ UNCHANGED <<cmdVars, registered, regVars, calls, lastOp, lastErr, str, codec, dconf>>

Workers == 1..Len(penv.block)

\* the caller's loop: wg.Add(1); go func() {...}()
MainSpawn ==
    /\ penv.main = "spawn"
    /\ penv.i <= Len(penv.block)
    /\ EnvStep([penv EXCEPT !.wg = @ + 1, !.wpc[penv.i] = "decode", !.i = @ + 1])

\* the caller starts the goroutine that cleans up, and turns to collecting
MainCleanup ==
    /\ penv.main = "spawn"
    /\ penv.i > Len(penv.block)
    /\ EnvStep([penv EXCEPT !.closer = "wait", !.main = "collect"])

\* a worker: stringCtoGo, strings.Index and the two slice expressions, which
\* panic on a negative index; the key and value are the worker's own copies
WorkerDecode(j) ==
    /\ penv.wpc[j] = "decode"
    /\ LET goStr == stringCtoGo(penv.block[j], DecodeBound)
           idx == Index(goStr, "=") IN
       IF idx < 0
       THEN EnvStep([penv EXCEPT !.panicked = TRUE])
       ELSE EnvStep([penv EXCEPT !.kv[j] = splitEntry(goStr, idx),
                                 !.copied[j] = TRUE,
                                 !.wpc[j] = "send"])

\* one channel: env <- struct{key, value} meets the caller's range loop,
\* which does m[kv.key] = kv.value
SendPair(j) ==
    /\ penv.impl = "one-channel"
    /\ penv.wpc[j] = "send"
    /\ penv.main = "collect"
    /\ EnvStep([penv EXCEPT !.m = Put(@, penv.kv[j].key, penv.kv[j].value),
                            !.wpc[j] = "free"])

\* one channel: coTaskMemFree(cStr)
WorkerFree(j) ==
    /\ penv.wpc[j] = "free"
    /\ EnvStep([penv EXCEPT !.freed[j] = @ + 1, !.wpc[j] = "done"])

\* two channels, the key send not waiting for the caller to receive
SendKey_NoRendezvous(j) ==
    /\ penv.impl = "two-channel"
    /\ penv.wpc[j] = "send"
    /\ penv.main \in {"collect", "collectValue"}
    /\ EnvStep([penv EXCEPT !.k = penv.kv[j].key, !.okk = TRUE,
                            !.wpc[j] = "sendValue", !.main = "collectValue"])

\* two channels: keys <- goStr[:idx] meets the caller's k, okk = <-keys
SendKey(j) ==
    /\ penv.impl = "two-channel"
    /\ penv.wpc[j] = "send"
    /\ penv.main = "collect"
    /\ EnvStep([penv EXCEPT !.k = penv.kv[j].key, !.okk = TRUE,
                            !.wpc[j] = "sendValue", !.main = "collectValue"])

\* two channels: values <- goStr[idx+1:] meets the caller's v, okv = <-values;
\* the caller then finds okk && okv true and does m[k] = v
SendValue(j) ==
    /\ penv.impl = "two-channel"
    /\ penv.wpc[j] = "sendValue"
    /\ penv.main = "collectValue"
    /\ EnvStep([penv EXCEPT !.m = IF penv.okk THEN Put(@, penv.k, penv.kv[j].value) ELSE @,
                            !.wpc[j] = "done",
                            !.main = IF penv.okk THEN "collect" ELSE "returned"])

\* a worker ending without wg.Done()
WorkerDone_Forgets(j) ==
    /\ penv.wpc[j] = "done"
    /\ EnvStep([penv EXCEPT !.wpc[j] = "exit"])

\* the worker's deferred wg.Done()
WorkerDone(j) ==
    /\ penv.wpc[j] = "done"
    /\ EnvStep([penv EXCEPT !.wg = @ - 1, !.wpc[j] = "exit"])

\* wg.Wait() returning at once
wgWait_NoWait(p) == TRUE

\* wg.Wait() returns when the counter is zero
wgWait(p) == p.wg = 0

\* the cleaning goroutine gets past wg.Wait()
CloserWait ==
    /\ penv.closer = "wait"
    /\ wgWait(penv)
    /\ EnvStep([penv EXCEPT !.closer = IF penv.impl = "one-channel" THEN "free"
                                       ELSE "closeValues"])

\* one channel: coTaskMemFree(cStringArray)
CloserFree ==
    /\ penv.closer = "free"
    /\ EnvStep([penv EXCEPT !.arrFreed = @ + 1, !.closer = "close"])

\* one channel: close(env)
CloserClose ==
    /\ penv.closer = "close"
    /\ EnvStep([penv EXCEPT !.closed = @ \cup {"env"}, !.closes["env"] = @ + 1,
                            !.closer = "exit"])

\* two channels: the deferred close(values) runs first
CloserCloseValues ==
    /\ penv.closer = "closeValues"
    /\ EnvStep([penv EXCEPT !.closed = @ \cup {"values"}, !.closes["values"] = @ + 1,
                            !.closer = "closeKeys"])

\* two channels: then the deferred close(keys)
CloserCloseKeys ==
    /\ penv.closer = "closeKeys"
    /\ EnvStep([penv EXCEPT !.closed = @ \cup {"keys"}, !.closes["keys"] = @ + 1,
                            !.closer = "exit"])

\* one channel: the range loop ends on the closed channel; return m
CollectEnd ==
    /\ penv.impl = "one-channel"
    /\ penv.main = "collect"
    /\ "env" \in penv.closed
    /\ EnvStep([penv EXCEPT !.main = "returned"])

\* two channels: k, okk = <-keys on the closed channel gives "", false
CollectKeyClosed ==
    /\ penv.impl = "two-channel"
    /\ penv.main = "collect"
    /\ "keys" \in penv.closed
    /\ EnvStep([penv EXCEPT !.k = << >>, !.okk = FALSE, !.main = "collectValue"])

\* two channels: v, okv = <-values on the closed channel gives "", false;
\* okk && okv is false and the caller returns m
CollectValueClosed ==
    /\ penv.impl = "two-channel"
    /\ penv.main = "collectValue"
    /\ "values" \in penv.closed
    /\ EnvStep([penv EXCEPT !.main = "returned"])

EnvNext ==
    \/ MainSpawn
    \/ MainCleanup
    \/ \E j \in Workers : WorkerDecode(j)
    \/ \E j \in Workers : SendPair(j)
    \/ \E j \in Workers : WorkerFree(j)
    \/ \E j \in Workers : SendKey(j)
    \/ \E j \in Workers : SendValue(j)
    \/ \E j \in Workers : WorkerDone(j)
    \/ CloserWait
    \/ CloserFree
    \/ CloserClose
    \/ CloserCloseValues
    \/ CloserCloseKeys
    \/ CollectEnd
    \/ CollectKeyClosed
    \/ CollectValueClosed

SpecEnv == EnvInit /\ [][EnvNext]_vars

----------------------------------------------------------------------------
(* processEnvVariables under a fair scheduler: a goroutine that can take a *)
(* step is not left waiting for ever                                       *)

\* the steps of the worker of string j
WorkerStep(j) ==
    /\ penv.pc = "run"
    /\ j \in Workers
    /\ \/ WorkerDecode(j)
       \/ SendPair(j)
       \/ WorkerFree(j)
       \/ SendKey(j)
       \/ SendValue(j)
       \/ WorkerDone(j)

\* the steps of the cleaning goroutine
CloserStep ==
    \/ CloserWait
    \/ CloserFree
    \/ CloserClose
    \/ CloserCloseValues
    \/ CloserCloseKeys

\* the steps of the caller on its own
MainStep ==
    \/ MainSpawn
    \/ MainCleanup
    \/ CollectEnd
    \/ CollectKeyClosed
    \/ CollectValueClosed

EnvFairness ==
    /\ \A j \in 1..MaxCount : WF_vars(WorkerStep(j))
    /\ WF_vars(CloserStep)
    /\ WF_vars(MainStep)

SpecEnvFair == EnvInit /\ [][EnvNext]_vars /\ EnvFairness

----------------------------------------------------------------------------
(* strnlen and stringCtoGo on their own: a pointer into MemLen bytes of    *)
(* memory with any content, and any bound up to MaxBound                   *)

MemLen == MaxBound + 2

StrInit ==
    /\ CmdInit
    /\ RegIdle
    /\ penv = [pc |-> "none"]
    /\ codec = [pc |-> "none"]
    /\ dconf = [pc |-> "none"]
    /\ str \in {[pc |-> "init", mem |-> mem, maxlen |-> n, length |-> 0,
                 reads |-> {}, goString |-> << >>] :
                    mem \in [1..MemLen -> Bytes], n \in 0..MaxBound}

StrStep(s) ==
    /\ str.pc = "init"
    /\ str' = s
    /\ UNCHANGED <<cmdVars, registered, regVars, calls, lastOp, lastErr, penv, codec, dconf>>

DoStrnlen ==
    StrStep([str EXCEPT !.pc = "strnlen",
                        !.length = strnlen(str.mem, str.maxlen),
                        !.reads = strnlenReads(str.mem, str.maxlen)])

DoStringCtoGo ==
    StrStep([str EXCEPT !.pc = "stringCtoGo",
                        !.length = strnlen(str.mem, str.maxlen),
                        !.reads = strnlenReads(str.mem, str.maxlen),
                        !.goString = stringCtoGo(str.mem, str.maxlen)])

StrNext ==
    \/ DoStrnlen
    \/ DoStringCtoGo

SpecStr == StrInit /\ [][StrNext]_vars

----------------------------------------------------------------------------
(* The flags word of a distro (WSL_DISTRIBUTION_FLAGS) and Configuration   *)

MaxFlagWord == 31
MaxVersion == 3

flag_NONE == 0
flag_ENABLE_INTEROP == 1
flag_APPEND_NT_PATH == 2
flag_ENABLE_DRIVE_MOUNTING == 4
flag_undocumented_WSL_VERSION == 8

\* flags & bit != 0 and flags | bit, for a bit that is a power of two
HasBit(flags, bit) == (flags \div bit) % 2 = 1

SetBit(flags, bit) == IF HasBit(flags, bit) THEN flags ELSE flags + bit

\* var conf Configuration
ZeroConf == [Version |-> 0, DefaultUID |-> 0, InteropEnabled |-> FALSE,
             PathAppended |-> FALSE, DriveMountingEnabled |-> FALSE,
             undocumentedWSLVersion |-> 0]

FlagWords == 0..MaxFlagWord

Confs == [Version : {1, 2}, DefaultUID : {0, 1000}, InteropEnabled : BOOLEAN,
          PathAppended : BOOLEAN, DriveMountingEnabled : BOOLEAN,
          undocumentedWSLVersion : 0..MaxVersion]

\* unpackFlags leaving WSL 1 whatever the flags say
unpackFlags_AlwaysV1(conf, flags) ==
    [conf EXCEPT !.InteropEnabled = HasBit(flags, flag_ENABLE_INTEROP),
                 !.PathAppended = HasBit(flags, flag_APPEND_NT_PATH),
                 !.DriveMountingEnabled = HasBit(flags, flag_ENABLE_DRIVE_MOUNTING),
                 !.undocumentedWSLVersion = 1]

\* (*Configuration).unpackFlags
unpackFlags(conf, flags) ==
    [conf EXCEPT !.InteropEnabled = HasBit(flags, flag_ENABLE_INTEROP),
                 !.PathAppended = HasBit(flags, flag_APPEND_NT_PATH),
                 !.DriveMountingEnabled = HasBit(flags, flag_ENABLE_DRIVE_MOUNTING),
                 !.undocumentedWSLVersion =
                     IF HasBit(flags, flag_undocumented_WSL_VERSION) THEN 2 ELSE 1]

\* the flags packFlags has built before its switch on the version
packedBits(conf) ==
    LET a == IF conf.InteropEnabled THEN SetBit(flag_NONE, flag_ENABLE_INTEROP) ELSE flag_NONE
        b == IF conf.PathAppended THEN SetBit(a, flag_APPEND_NT_PATH) ELSE a IN
    IF conf.DriveMountingEnabled THEN SetBit(b, flag_ENABLE_DRIVE_MOUNTING) ELSE b

\* packFlags taking any version other than 2 for WSL 1
packFlags_DefaultV1(conf) ==
    IF conf.undocumentedWSLVersion = 2
    THEN [flags |-> SetBit(packedBits(conf), flag_undocumented_WSL_VERSION), err |-> Nil]
    ELSE [flags |-> packedBits(conf), err |-> Nil]

\* Configuration.packFlags
packFlags(conf) ==
    IF conf.undocumentedWSLVersion = 1
    THEN [flags |-> packedBits(conf), err |-> Nil]
    ELSE IF conf.undocumentedWSLVersion = 2
    THEN [flags |-> SetBit(packedBits(conf), flag_undocumented_WSL_VERSION), err |-> Nil]
    ELSE [flags |-> packedBits(conf), err |-> Errorf("unknown WSL version")]

\* any Configuration and any flags word; orig and origFlags keep them
CodecInit ==
    /\ CmdInit
    /\ RegIdle
    /\ penv = [pc |-> "none"]
    /\ str = [pc |-> "none"]
    /\ dconf = [pc |-> "none"]
    /\ codec \in {[pc |-> "init", conf |-> c, flags |-> f, err |-> Nil,
                   orig |-> c, origFlags |-> f] : c \in Confs, f \in FlagWords}

CodecStep(c) ==
    /\ codec' = c
    /\ UNCHANGED <<cmdVars, registered, regVars, calls, lastOp, lastErr, penv, str, dconf>>

\* packFlags on the Configuration: first, or after an unpackFlags
DoPackFlags ==
    /\ codec.pc \in {"init", "unpacked"}
    /\ LET r == packFlags(codec.conf) IN
       CodecStep([codec EXCEPT !.flags = r.flags, !.err = r.err,
                               !.pc = IF codec.pc = "init" THEN "packed"
                                      ELSE "unpacked-packed"])

\* unpackFlags on the flags word: first, on the Configuration as it is, or
\* on a new Configuration with the flags a packFlags has produced
DoUnpackFlags ==
    \/ /\ codec.pc = "init"
       /\ CodecStep([codec EXCEPT !.conf = unpackFlags(codec.conf, codec.flags),
                                  !.pc = "unpacked"])
    \/ /\ codec.pc = "packed"
       /\ codec.err = Nil
       /\ CodecStep([codec EXCEPT !.conf = unpackFlags(ZeroConf, codec.flags),
                                  !.pc = "packed-unpacked"])

CodecNext ==
    \/ DoPackFlags
    \/ DoUnpackFlags

SpecCodec == CodecInit /\ [][CodecNext]_vars

----------------------------------------------------------------------------
(* The configuration setters of a Distro (DefaultUID, InteropEnabled,      *)
(* PathAppended, DriveMountingEnabled).  Each reads the configuration with *)
(* GetConfiguration, sets its field in the copy and pushes the copy with   *)
(* configure; the callers are goroutines of the program, so the read of    *)
(* one can fall between the read and the push of another.                  *)
(*   dconf = [pc, native, nwrites, sc]                                     *)
(* native = [version, uid, flags] is what the native layer holds; nwrites  *)
(* counts the configure calls that changed it; sc is the call of each      *)
(* caller, the callers being numbered in the order of their calls.         *)

MaxCallers == 2

Callers == 1..MaxCallers
UIDs == {0, 1000}
Setters == {"DefaultUID", "InteropEnabled", "PathAppended", "DriveMountingEnabled"}
SetterValues(setter) == IF setter = "DefaultUID" THEN UIDs ELSE BOOLEAN

ReadOutcomes == {"ok", "utf16", "r1"}

\* flags words the native layer may hold at first: the three flags on WSL 1;
\* interop and drive mounting on WSL 2 with a bit the library does not know
NativeFlagWords == {7, 29}

\* Distro.GetConfiguration; the environment block it also decodes
\* (processEnvVariables) is not part of what configure pushes
GetConfiguration(native, outcome) ==
    IF outcome = "utf16"
    THEN [conf |-> ZeroConf, err |-> Errorf("failed to convert to UTF16")]
    ELSE IF outcome = "r1"
    THEN [conf |-> ZeroConf,
          err |-> Errorf("failed syscall to WslGetDistributionConfiguration")]
    ELSE [conf |-> unpackFlags([ZeroConf EXCEPT !.Version = native.version,
                                                !.DefaultUID = native.uid],
                               native.flags),
          err |-> Nil]

\* a setter's assignment that also switches interop off
setField_ClearsInterop(conf, setter, value) ==
    IF setter = "DefaultUID"
    THEN [conf EXCEPT !.DefaultUID = value, !.InteropEnabled = FALSE]
    ELSE IF setter = "InteropEnabled" THEN [conf EXCEPT !.InteropEnabled = value]
    ELSE IF setter = "PathAppended"
    THEN [conf EXCEPT !.PathAppended = value, !.InteropEnabled = FALSE]
    ELSE [conf EXCEPT !.DriveMountingEnabled = value, !.InteropEnabled = FALSE]

\* the assignment of a setter: conf.<field> = value
setField(conf, setter, value) ==
    IF setter = "DefaultUID" THEN [conf EXCEPT !.DefaultUID = value]
    ELSE IF setter = "InteropEnabled" THEN [conf EXCEPT !.InteropEnabled = value]
    ELSE IF setter = "PathAppended" THEN [conf EXCEPT !.PathAppended = value]
    ELSE [conf EXCEPT !.DriveMountingEnabled = value]

\* configure with a native layer that takes the uid and drops the flags
configure_UidOnly(native, conf, outcome) ==
    IF outcome # "ok" \/ packFlags(conf).err # Nil
    THEN [native |-> native, pushed |-> << >>, wrote |-> FALSE,
          err |-> Errorf("failed to configure")]
    ELSE [native |-> [native EXCEPT !.uid = conf.DefaultUID],
          pushed |-> <<[uid |-> conf.DefaultUID, flags |-> packFlags(conf).flags]>>,
          wrote |-> TRUE, err |-> Nil]

\* (*Distro).configure: pushed is what WslConfigureDistribution was given,
\* << >> when it was not called; the native layer keeps the uid and the flags
configure(native, conf, outcome) ==
    IF outcome = "utf16"
    THEN [native |-> native, pushed |-> << >>, wrote |-> FALSE,
          err |-> Errorf("failed to convert to UTF16")]
    ELSE LET p == packFlags(conf)
             arg == [uid |-> conf.DefaultUID, flags |-> p.flags] IN
         IF p.err # Nil
         THEN [native |-> native, pushed |-> << >>, wrote |-> FALSE, err |-> p.err]
         ELSE IF outcome = "r1"
         THEN [native |-> native, pushed |-> <<arg>>, wrote |-> FALSE,
               err |-> Errorf("failed syscall to WslConfigureDistribution")]
         ELSE [native |-> [native EXCEPT !.uid = arg.uid, !.flags = arg.flags],
               pushed |-> <<arg>>, wrote |-> TRUE, err |-> Nil]

\* a caller that is not in a setter
NoCall == [pc |-> "idle", setter |-> "DefaultUID", value |-> 0, got |-> ZeroConf,
           pushed |-> << >>, err |-> Nil, readFailed |-> FALSE,
           atCall |-> [version |-> 0, uid |-> 0, flags |-> 0], writesAtCall |-> 0,
           readAt |-> 0, wroteAt |-> 0]

ConfInit ==
    /\ CmdInit
    /\ RegIdle
    /\ penv = [pc |-> "none"]
    /\ str = [pc |-> "none"]
    /\ codec = [pc |-> "none"]
    /\ dconf \in {[pc |-> "run", native |-> [version |-> 2, uid |-> 1000, flags |-> f],
                   nwrites |-> 0, sc |-> [t \in Callers |-> NoCall]] :
                      f \in NativeFlagWords}

ConfStep(d) ==
    /\ dconf.pc = "run"
    /\ dconf' = d
    /\ UNCHANGED <<cmdVars, registered, regVars, calls, lastOp, lastErr, penv, str, codec>>

\* caller t calls a setter with a value
SetterCall(t) ==
    /\ dconf.sc[t].pc = "idle"
    /\ \A u \in 1..(t - 1) : dconf.sc[u].pc # "idle"
    /\ \E setter \in Setters : \E value \in SetterValues(setter) :
           ConfStep([dconf EXCEPT !.sc[t] = [NoCall EXCEPT !.pc = "called",
                                                           !.setter = setter,
                                                           !.value = value,
                                                           !.atCall = dconf.native,
                                                           !.writesAtCall = dconf.nwrites]])

\* conf, err := d.GetConfiguration(); if err != nil { return err }
SetterRead(t) ==
    /\ dconf.sc[t].pc = "called"
    /\ \E outcome \in ReadOutcomes :
           LET g == GetConfiguration(dconf.native, outcome) IN
           IF g.err # Nil
           THEN ConfStep([dconf EXCEPT !.sc[t].pc = "returned",
                                       !.sc[t].err = g.err,
                                       !.sc[t].readFailed = TRUE])
           ELSE ConfStep([dconf EXCEPT !.sc[t].pc = "write",
                                       !.sc[t].got = g.conf,
                                       !.sc[t].readAt = dconf.nwrites])

\* conf.<field> = value; return d.configure(conf)
SetterConfigure(t) ==
    /\ dconf.sc[t].pc = "write"
    /\ \E outcome \in ReadOutcomes :
           LET c == configure(dconf.native,
                              setField(dconf.sc[t].got, dconf.sc[t].setter, dconf.sc[t].value),
                              outcome)
               n == IF c.wrote THEN dconf.nwrites + 1 ELSE dconf.nwrites IN
           ConfStep([dconf EXCEPT !.native = c.native,
                                  !.nwrites = n,
                                  !.sc[t].pc = "returned",
                                  !.sc[t].pushed = c.pushed,
                                  !.sc[t].err = c.err,
                                  !.sc[t].wroteAt = IF c.wrote THEN n ELSE 0])

ConfNext ==
    \/ \E t \in Callers : SetterCall(t)
    \/ \E t \in Callers : SetterRead(t)
    \/ \E t \in Callers : SetterConfigure(t)

SpecConf == ConfInit /\ [][ConfNext]_vars

----------------------------------------------------------------------------
(* Properties of the command lifecycle and of Shell *)

\* the native calls to fn that the last operation issued
CallsTo(fn) == {i \in DOMAIN calls : calls[i].fn = fn}

IsExitError(e, n) == e.kind = "*ExitError" /\ e.code = n

\* the last operation was a Run in which GetExitCodeProcess reported n
RunReported(n) ==
    /\ lastOp = "Run"
    /\ \E i \in CallsTo("GetExitCodeProcess") : calls[i].ret = 0 /\ calls[i].out = n

\* C1: whenever the native layer reports exit code n for the command a Run
\* launched, Run returns no error exactly when n = 0 and otherwise returns
\* an ExitError whose Code is n.
C1_RunExitCode ==
    \A n \in ExitCodes \cup {ActiveProcess} :
        RunReported(n) => /\ (lastErr = Nil <=> n = 0)
                          /\ (n # 0 => IsExitError(lastErr, n))

C1_Witness == RunReported(7) /\ IsExitError(lastErr, 7)

\* C2: once kill has been issued on the handle Start obtained, the Wait and
\* Close calls that follow issue CloseHandle on that handle at most once.
C2_KillThenReleaseOnce ==
    \A h \in Handles : killedAt[h] # -1 => closeCalls[h] - killedAt[h] <= 1

\* C3: a Close on a Cmd whose handle is already zero (such as every Close
\* after the first) issues no native call and returns no error.
C3_CloseIdempotent ==
    (lastOp = "Close" /\ pre.handle = 0) => (calls = << >> /\ lastErr = Nil)

\* C6: Start never returns success leaving the Cmd with a zero handle.
C6_StartNeverNullHandle ==
    (lastOp = "Start" /\ lastErr = Nil) => cmd.handle # 0

\* the last operation was a Run whose Start failed
RunStartFailed ==
    /\ lastOp = "Run"
    /\ \/ calls = << >>
       \/ calls[1].fn = "WslLaunch" /\ calls[1].ret # 0

\* C7: a Run whose Start fails returns Start's error and issues no native
\* wait, no status query and no handle release.
C7_RunStopsAtStartFailure ==
    RunStartFailed =>
        /\ CallsTo("WaitForSingleObject") = {}
        /\ CallsTo("GetExitCodeProcess") = {}
        /\ CallsTo("CloseHandle") = {}
        /\ lastErr \in {Errorf("failed to convert to UTF16"),
                        Errorf("failed syscall to WslLaunch")}

C7_Witness == RunStartFailed /\ calls # << >> /\ lastErr # Nil

\* the registry lookup of the last operation found the distro
FoundRegistered(i) ==
    calls[i].fn = "RegisteredDistros" /\ calls[i].ret = 0 /\ calls[i].out = 1

\* C8: Shell issues WslLaunchInteractive only after a registry lookup that
\* found the distro; on an unregistered distro, or when the lookup fails, it
\* returns an error and never issues the call.
C8_ShellChecksRegistration ==
    lastOp = "Shell" =>
        /\ \A i \in CallsTo("WslLaunchInteractive") :
               \E j \in 1..(i - 1) : FoundRegistered(j)
        /\ (~registered \/ (\E j \in CallsTo("RegisteredDistros") : calls[j].ret # 0))
               => (lastErr # Nil /\ CallsTo("WslLaunchInteractive") = {})

C8_Witness ==
    lastOp = "Shell" /\ ~registered /\ lastErr # Nil /\ CallsTo("RegisteredDistros") # {}

\* C9: when the command Shell ran exits with a non-zero code n, Shell
\* returns the ExitError carrying n.
C9_ShellExitError ==
    lastOp = "Shell" =>
        \A i \in CallsTo("WslLaunchInteractive") :
            (calls[i].ret = 0 /\ calls[i].out \notin {0, WindowsError})
                => IsExitError(lastErr, calls[i].out)

\* C10: neither Shell nor Wait (Run, waitProcess) gives out 0xFFFFFFFF as the
\* exit code of the process: no ExitError carries it, and a status of
\* 0xFFFFFFFF comes with an error.
C10_SentinelNeverAnExit ==
    /\ lastOp \in {"Shell", "Wait", "Run"} => ~IsExitError(lastErr, WindowsError)
    /\ lastOp = "waitProcess" => (lastStatus = WindowsError => lastErr # Nil)

\* the last operation issued CloseHandle on the handle the Cmd held when it
\* was called, or that handle is not open any more
ReleasedByLastOp ==
    \/ pre.handle \notin open
    \/ \E i \in CallsTo("CloseHandle") : calls[i].h = pre.handle

\* C18: every return of the wait operation (Wait, waitProcess), with or
\* without error, has released the process handle the Cmd held, also when the
\* native wait reports an error or an event other than the signalled one.
C18_WaitAlwaysReleases ==
    (lastOp \in {"Wait", "waitProcess"} /\ pre.handle \in Handles) => ReleasedByLastOp

\* C19: kill does not release the handle and leaves the handle field as it
\* was: when it returns, with or without error, the Cmd holds the handle it
\* held before, no CloseHandle was issued, and the only native calls issued
\* are the status query and the forced termination.
C19_KillKeepsHandle ==
    lastOp = "Kill" =>
        /\ cmd.handle = pre.handle
        /\ CallsTo("CloseHandle") = {}
        /\ \A i \in DOMAIN calls :
               /\ calls[i].fn \in {"GetExitCodeProcess", "TerminateProcess"}
               /\ calls[i].h = pre.handle

\* kill has terminated the running process of an open handle, and the Cmd
\* holds that handle, still open
C19_Witness ==
    /\ lastOp = "Kill"
    /\ \E i \in CallsTo("TerminateProcess") : calls[i].ret = 0
    /\ cmd.handle = pre.handle
    /\ cmd.handle \in open

\* C20: status() caches its result: when a status() call has obtained the
\* exit code of the finished process from the native layer, the Cmd's cached
\* exit status is present and holds that code (so that later status() calls
\* return it without a native query).
C20_StatusCachesResult ==
    (/\ lastOp = "status"
     /\ lastErr = Nil
     /\ \E i \in CallsTo("GetExitCodeProcess") :
            calls[i].ret = 0 /\ calls[i].out # ActiveProcess)
        => cmd.exitStatus = Cached(lastStatus)

\* C24: after any sequence of Start, Wait, Kill and Close on one Cmd, every
\* handle a successful launch has returned is the Cmd's current handle or
\* has been released; in particular Start never overwrites a handle that is
\* still open.
C24_NoHandleLost ==
    \A h \in open : h = cmd.handle

\* the last operation's native wait returned the signalled event
WaitSignalled ==
    \E i \in CallsTo("WaitForSingleObject") : calls[i].ret = WAIT_OBJECT_0

\* C27: when waitProcess's native wait has signalled and its status query
\* has succeeded with exit code n, waitProcess returns n as the status,
\* whether or not the release of the handle succeeds: a release failure
\* never turns n into 0xFFFFFFFF.
C27_ReleaseFailureKeepsExitCode ==
    (lastOp = "waitProcess" /\ WaitSignalled) =>
        /\ \A i \in CallsTo("GetExitCodeProcess") :
               calls[i].ret = 0 => lastStatus = calls[i].out
        /\ (pre.exitStatus # NoStatus /\ CallsTo("GetExitCodeProcess") = {})
               => lastStatus = pre.exitStatus[1]

----------------------------------------------------------------------------
(* Properties of a command run under a context *)

\* the run has returned, having launched a process
CtxReturned == pcMain = "done" /\ cmd.handle # 0

\* C4: when a command run under a context has returned, the handle of the
\* process it launched has been released exactly once, whichever of
\* completion and cancellation came first.
C4_ReleasedExactlyOnce ==
    CtxReturned => closeCalls[cmd.handle] = 1

KillIssued == CallsTo("TerminateProcess") # {}

ExitOutcome(n) == IF n = 0 THEN Nil ELSE ExitErrorPtr(n)

\* the native layer reported exit code n to the waiting caller
WaitReported(n) ==
    \E i \in CallsTo("GetExitCodeProcess") : calls[i].ret = 0 /\ calls[i].out = n

\* C5: a run under a context that returns after the watcher acted on the
\* signal has issued the forced termination and returns the context's
\* error, which is no ExitError; a run whose wait returned first has issued
\* no kill and returns the ExitOutcome of the process: nil for the exit
\* code 0 the native layer reported, an ExitError carrying it otherwise.
C5_CancelledOrOrdinary ==
    CtxReturned =>
        /\ chose = "signal" =>
              /\ KillIssued
              /\ result = CtxErr
              /\ result.kind # "*ExitError"
        /\ chose = "natural" =>
              /\ ~KillIssued
              /\ \A n \in ExitCodes \cup {ActiveProcess} :
                     WaitReported(n) => result = ExitOutcome(n)

----------------------------------------------------------------------------
(* Properties of Register and Unregister (SpecReg) *)

\* C11: in any sequence of Register and Unregister calls issued one at a
\* time, the native register call is made only on a name that was not
\* registered when Register was called and the native unregister call only
\* on one that was; Register on a registered name and Unregister on an
\* unregistered one return an error and leave the registry as it was.
C11_RegisterUnregisterGuarded ==
    /\ (lastOp = "Register" /\ CallsTo("WslRegisterDistribution") # {})
           => regName \notin preRegistry
    /\ (lastOp = "Unregister" /\ CallsTo("WslUnregisterDistribution") # {})
           => regName \in preRegistry
    /\ (lastOp = "Register" /\ regName \in preRegistry)
           => (lastErr # Nil /\ registry = preRegistry)
    /\ (lastOp = "Unregister" /\ regName \notin preRegistry)
           => (lastErr # Nil /\ registry = preRegistry)

\* Register was called on a registered name, found it in the registry and
\* was refused before any native registration call
C11_Witness ==
    /\ lastOp = "Register"
    /\ regName \in preRegistry
    /\ lastErr # Nil
    /\ CallsTo("RegisteredDistros") # {}
    /\ CallsTo("WslRegisterDistribution") = {}

----------------------------------------------------------------------------
(* Properties of processEnvVariables (SpecEnv) *)

\* the text of a native string, without its terminator
GoString(c) == SubSeq(c, 1, Len(c) - 1)

HasSeparator(c) == \E j \in 1..Len(GoString(c)) : c[j] = "="

KeyText(c) == SubSeq(c, 1, Index(GoString(c), "="))

\* every string is KEY=VALUE and no two strings have the same key
WellFormedDistinct(block) ==
    /\ \A j \in 1..Len(block) : HasSeparator(block[j])
    /\ \A i, j \in 1..Len(block) : i # j => KeyText(block[i]) # KeyText(block[j])

Returned == penv.pc = "run" /\ penv.main = "returned"

\* C12: for every block of well-formed KEY=VALUE strings with pairwise
\* distinct keys, of any count from 0, and under every interleaving of the
\* workers, the map processEnvVariables returns has exactly count entries,
\* one per string, each key mapped to the value of its own string, and it is
\* returned only after every worker has finished.
C12_EveryEntryDecoded ==
    (Returned /\ WellFormedDistinct(penv.block)) =>
        /\ Cardinality(DOMAIN penv.m) = Len(penv.block)
        /\ \A j \in 1..Len(penv.block) :
               \E k \in DOMAIN penv.m :
                   /\ \A x \in 1..Len(k) : k[x] # "="
                   /\ GoString(penv.block[j]) = k \o <<"=">> \o penv.m[k]
        /\ \A j \in 1..Len(penv.block) : penv.wpc[j] = "exit"

\* a block of two or more well-formed strings with distinct keys was decoded
\* and the map returned
C12_Witness ==
    /\ Returned
    /\ Len(penv.block) >= 2
    /\ WellFormedDistinct(penv.block)
    /\ Cardinality(DOMAIN penv.m) >= 2

\* C13: decoding a block in which an entry has no '=' separator does not
\* panic and does not return a map (the caller is to get a
\* malformed-environment-entry error instead).
C13_MalformedEntryIsAnError ==
    (penv.pc = "run" /\ \E j \in 1..Len(penv.block) : ~HasSeparator(penv.block[j]))
        => (~penv.panicked /\ penv.main # "returned")

\* C15: in the one-channel decoder, under every interleaving, each native
\* string is released at most once and only after its key and value have been
\* copied, the native array is released at most once and only after every
\* string has been released, and when the map is returned every string and
\* the array have been released exactly once.
C15_ReleasedOnceInOrder ==
    (penv.pc = "run" /\ penv.impl = "one-channel") =>
        /\ \A j \in 1..Len(penv.block) :
               /\ penv.freed[j] <= 1
               /\ penv.freed[j] = 1 => penv.copied[j]
        /\ penv.arrFreed <= 1
        /\ penv.arrFreed = 1 => \A j \in 1..Len(penv.block) : penv.freed[j] = 1
        /\ penv.main = "returned" =>
               (penv.arrFreed = 1 /\ \A j \in 1..Len(penv.block) : penv.freed[j] = 1)

\* the one-channel decoder has returned after releasing two or more strings
\* and the array
C15_Witness ==
    /\ Returned
    /\ penv.impl = "one-channel"
    /\ Len(penv.block) >= 2
    /\ penv.arrFreed = 1
    /\ \A j \in 1..Len(penv.block) : penv.freed[j] = 1 /\ penv.copied[j]

\* C21: when the block holds two strings with the same key, the map returned
\* holds that key once, bound to the value of the later string in array
\* order, under every interleaving of the workers.
C21_LaterEntryWins ==
    (Returned /\ \A j \in 1..Len(penv.block) : HasSeparator(penv.block[j])) =>
        \A j \in 1..Len(penv.block) :
            LET k == KeyText(penv.block[j]) IN
            /\ k \in DOMAIN penv.m
            /\ (\A i \in (j + 1)..Len(penv.block) : KeyText(penv.block[i]) # k)
                   => GoString(penv.block[j]) = k \o <<"=">> \o penv.m[k]

\* the workers that have sent their key and not yet their value
BetweenSends == {j \in 1..Len(penv.block) : penv.wpc[j] = "sendValue"}

\* C25: in the two-channel decoder, under every interleaving, at most one
\* worker is between its key send and its value send, the key the collector
\* holds is that worker's, and every key of the map is bound to the value
\* of a string that has this key: keys and values of different strings are
\* never paired.
C25_KeyMeetsOwnValue ==
    (penv.pc = "run" /\ penv.impl = "two-channel") =>
        /\ Cardinality(BetweenSends) <= 1
        /\ \A j \in BetweenSends :
               penv.main = "collectValue" /\ penv.okk /\ penv.k = penv.kv[j].key
        /\ \A k \in DOMAIN penv.m :
               \E j \in 1..Len(penv.block) :
                   /\ penv.wpc[j] \in {"done", "exit"}
                   /\ penv.kv[j] = [key |-> k, value |-> penv.m[k]]
                   /\ GoString(penv.block[j]) = k \o <<"=">> \o penv.m[k]

\* the two-channel decoder has returned the map of two strings with
\* different keys and different values
C25_Witness ==
    /\ Returned
    /\ penv.impl = "two-channel"
    /\ \E i, j \in 1..Len(penv.block) :
           /\ penv.kv[i].key # penv.kv[j].key
           /\ penv.kv[i].value # penv.kv[j].value
           /\ penv.m[penv.kv[i].key] = penv.kv[i].value
           /\ penv.m[penv.kv[j].key] = penv.kv[j].value

\* the channels of the implementation, each closed once
ClosedOnce ==
    penv.closes = [c \in Channels |->
                      IF (c = "env") <=> (penv.impl = "one-channel") THEN 1 ELSE 0]

AllWellFormed == \A j \in 1..Len(penv.block) : HasSeparator(penv.block[j])

\* the call has returned, every worker and the cleaning goroutine have
\* ended, and each channel has been closed once
AllDone ==
    /\ Returned
    /\ \A j \in 1..Len(penv.block) : penv.wpc[j] = "exit"
    /\ penv.closer = "exit"
    /\ ClosedOnce

\* C26: for every count from 0 of well-formed strings, under fair scheduling
\* of the workers, the cleaning goroutine and the collector,
\* processEnvVariables eventually returns with no worker left blocked on a
\* send; no channel is closed more than once, nor before every worker is
\* done.
C26_DecoderReturns ==
    /\ (penv.pc = "run" /\ AllWellFormed) ~> AllDone
    /\ [](penv.pc = "run" =>
            \A c \in Channels :
                /\ penv.closes[c] <= 1
                /\ penv.closes[c] = 1 => \A j \in 1..Len(penv.block) : penv.wpc[j] = "exit")

\* a call on a block of well-formed strings has returned, its workers ended
\* and its channels closed once
C26_Witness ==
    /\ penv.pc = "run"
    /\ Len(penv.block) >= 1
    /\ AllWellFormed
    /\ AllDone

----------------------------------------------------------------------------
(* Properties of strnlen and stringCtoGo (SpecStr) *)

Scanned == str.pc \in {"strnlen", "stringCtoGo"}

\* no terminator at any of the offsets 0 .. maxlen - 1
NoTerminatorWithin(mem, maxlen) == \A off \in 0..(maxlen - 1) : mem[off + 1] # NUL

\* C14: for every native string with no terminator within the bound,
\* strnlen/stringCtoGo with bound maxlen give a length of exactly maxlen,
\* never more, and read no byte at an offset beyond the bound.
C14_LengthStopsAtBound ==
    (Scanned /\ NoTerminatorWithin(str.mem, str.maxlen)) =>
        /\ str.length = str.maxlen
        /\ str.pc = "stringCtoGo" => Len(str.goString) = str.maxlen
        /\ \A off \in str.reads : off <= str.maxlen

----------------------------------------------------------------------------
(* Properties of packFlags and unpackFlags (SpecCodec) *)

SameFlagsAndVersion(a, b) ==
    /\ a.InteropEnabled = b.InteropEnabled
    /\ a.PathAppended = b.PathAppended
    /\ a.DriveMountingEnabled = b.DriveMountingEnabled
    /\ a.undocumentedWSLVersion = b.undocumentedWSLVersion

\* C16: for every Configuration whose version discriminant is 1 or 2 and
\* every combination of the interop, path-append and drive-mount flags,
\* packFlags followed by unpackFlags gives back the same three flags and the
\* same version discriminant.
C16_PackUnpackRoundTrip ==
    (codec.pc \in {"packed", "packed-unpacked"}
        /\ codec.orig.undocumentedWSLVersion \in {1, 2}) =>
        /\ codec.err = Nil
        /\ codec.pc = "packed-unpacked" => SameFlagsAndVersion(codec.conf, codec.orig)

\* a WSL 2 Configuration with interop and drive mounting on and path
\* appending off has gone through packFlags and unpackFlags
C16_Witness ==
    /\ codec.pc = "packed-unpacked"
    /\ codec.orig.undocumentedWSLVersion = 2
    /\ codec.orig.InteropEnabled
    /\ ~codec.orig.PathAppended
    /\ codec.orig.DriveMountingEnabled

\* C17: packFlags returns an invalid-version error exactly when the version
\* discriminant is neither 1 nor 2, and a Configuration that unpackFlags has
\* filled from any bit pattern always packs without error.
C17_PackFailsOnUnknownVersionOnly ==
    /\ codec.pc = "packed" =>
           (codec.err # Nil <=> codec.orig.undocumentedWSLVersion \notin {1, 2})
    /\ codec.pc = "unpacked-packed" => codec.err = Nil

\* packFlags has refused a Configuration whose version is neither 1 nor 2
C17_Witness ==
    /\ codec.pc = "packed"
    /\ codec.orig.undocumentedWSLVersion \notin {1, 2}
    /\ codec.err # Nil

----------------------------------------------------------------------------
(* Properties of the configuration setters (SpecConf) *)

\* what a setter call gave to WslConfigureDistribution
Pushed(t) == dconf.sc[t].pushed[1]

\* the field of a Configuration that the setter named s assigns
FieldOf(conf, s) ==
    IF s = "DefaultUID" THEN conf.DefaultUID
    ELSE IF s = "InteropEnabled" THEN conf.InteropEnabled
    ELSE IF s = "PathAppended" THEN conf.PathAppended
    ELSE conf.DriveMountingEnabled

\* the Configuration that a uid and a flags word stand for
ConfOf(uid, flags) == unpackFlags([ZeroConf EXCEPT !.DefaultUID = uid], flags)

\* a and b agree on the mutable fields other than the one of setter s, and
\* on the version selector
SameButFor(a, b, s) ==
    /\ \A o \in Setters \ {s} : FieldOf(a, o) = FieldOf(b, o)
    /\ a.undocumentedWSLVersion = b.undocumentedWSLVersion

\* no configure call of another caller changed the native configuration
\* between the call of caller t and now
RanAlone(t) ==
    dconf.nwrites = dconf.sc[t].writesAtCall + (IF dconf.sc[t].wroteAt # 0 THEN 1 ELSE 0)

\* C22: what a setter pushes to the native layer equals the configuration it
\* has just read in the three other mutable fields and in the version
\* selector, and holds the new value in its own field, so a setter run alone
\* changes only its own field; a setter whose read fails returns the error
\* without a configure call, and run alone leaves the native configuration
\* as it was.
C22_SetterChangesOwnFieldOnly ==
    dconf.pc = "run" =>
        \A t \in Callers :
            LET c == dconf.sc[t] IN
            c.pc = "returned" =>
                /\ c.readFailed =>
                       /\ c.err # Nil
                       /\ c.pushed = << >>
                       /\ RanAlone(t) => dconf.native = c.atCall
                /\ c.pushed # << >> =>
                       /\ SameButFor(ConfOf(Pushed(t).uid, Pushed(t).flags), c.got, c.setter)
                       /\ FieldOf(ConfOf(Pushed(t).uid, Pushed(t).flags), c.setter) = c.value
                /\ (c.err = Nil /\ RanAlone(t)) =>
                       /\ SameButFor(ConfOf(dconf.native.uid, dconf.native.flags),
                                     ConfOf(c.atCall.uid, c.atCall.flags), c.setter)
                       /\ FieldOf(ConfOf(dconf.native.uid, dconf.native.flags), c.setter) = c.value
                       /\ dconf.native.version = c.atCall.version

\* PathAppended was switched, alone and with success, on a distro that had
\* interop and drive mounting on
C22_Witness ==
    /\ dconf.pc = "run"
    /\ \E t \in Callers :
           LET c == dconf.sc[t] IN
           /\ c.pc = "returned"
           /\ c.err = Nil
           /\ RanAlone(t)
           /\ c.setter = "PathAppended"
           /\ c.value # c.got.PathAppended
           /\ c.got.InteropEnabled
           /\ c.got.DriveMountingEnabled

\* callers t and u have both returned success from setters of different
\* fields, u's configure call being the one after t's and the last so far
WroteInTurn(t, u) ==
    /\ t # u
    /\ dconf.sc[t].pc = "returned" /\ dconf.sc[t].err = Nil
    /\ dconf.sc[u].pc = "returned" /\ dconf.sc[u].err = Nil
    /\ dconf.sc[t].setter # dconf.sc[u].setter
    /\ dconf.sc[u].wroteAt = dconf.sc[t].wroteAt + 1
    /\ dconf.nwrites = dconf.sc[u].wroteAt

\* u read the configuration before t's configure call changed it
ReadBeforeWrite(t, u) == dconf.sc[u].readAt < dconf.sc[t].wroteAt

NativeConf == ConfOf(dconf.native.uid, dconf.native.flags)

\* C23: the setters are not synchronized: when two setters of different
\* fields run concurrently and both return success, the native configuration
\* holds the later writer's value in its field, and in the earlier writer's
\* field it holds the earlier writer's value only if the later writer read
\* after that write; if it read before, it holds what the later writer read,
\* and the earlier update is lost.
C23_SettersUnsynchronized ==
    dconf.pc = "run" =>
        \A t, u \in Callers :
            WroteInTurn(t, u) =>
                /\ FieldOf(NativeConf, dconf.sc[u].setter) = dconf.sc[u].value
                /\ FieldOf(NativeConf, dconf.sc[t].setter) =
                       IF ReadBeforeWrite(t, u)
                       THEN FieldOf(dconf.sc[u].got, dconf.sc[t].setter)
                       ELSE dconf.sc[t].value

\* two setters of different fields have both returned success and the
\* native configuration does not hold the value the first of them set
C23_Witness ==
    /\ dconf.pc = "run"
    /\ \E t, u \in Callers :
           /\ WroteInTurn(t, u)
           /\ ReadBeforeWrite(t, u)
           /\ FieldOf(NativeConf, dconf.sc[t].setter) # dconf.sc[t].value

====
